---- MODULE Spec2Model ----
(***************************************************************************)
(* Live captioning pipeline (src/audio.py, src/utils.py,                   *)
(* src/transcriber.py, src/translators.py, src/gui_new.py, src/main.py).   *)
(*                                                                         *)
(* Three execution contexts are modelled:                                  *)
(*   - the sounddevice callback that pushes frames on the audio queue q,   *)
(*   - the worker thread running audio_processing,                         *)
(*   - the Tk thread (update_gui, exit_application).                       *)
(*                                                                         *)
(* Audio is kept at block granularity: every frame delivered by the        *)
(* stream holds CHUNK_SIZE samples, so every buffer length in the program  *)
(* is a multiple of CHUNK_SIZE.  A buffer is a sequence of blocks; a block *)
(* is the sequence number of the frame it came from, or 0 for a block      *)
(* whose samples were multiplied by 0.0.                                   *)
(*                                                                         *)
(* Text is a sequence of one-character strings; a message on gui_queue is  *)
(* a sequence of tokens whose first token is "STATUS:" for status          *)
(* messages.                                                               *)
(***************************************************************************)
EXTENDS Integers, Sequences, FiniteSets, TLC

\* ---------------------------------------------------------------- constants
\* src/config.py:9
CHUNK_SIZE == 512
\* src/config.py:8 is 16000; scaled down.  As in the program, the longest
\* utterance MAX_SPEECH_SECS * SAMPLING_RATE is no multiple of CHUNK_SIZE and
\* exceeds the lookback window
SAMPLING_RATE == 1200
\* src/config.py:10 is 5; scaled down
LOOKBACK_CHUNKS == 2
\* src/config.py:12 is 15; scaled down together with SAMPLING_RATE
MAX_SPEECH_SECS == 1
\* src/config.py:13 is 0.5 s; the model's clock ticks every 0.5 s
MIN_REFRESH_SECS == 1
\* number of frames the stream delivers in a run
MaxFrames == 4
\* number of messages waiting on gui_queue between two runs of update_gui
MaxPending == 3

\* the clock difference time.time() - start_time is only ever compared with
\* MIN_REFRESH_SECS, so it is kept saturated one tick above it
TimeCap == MIN_REFRESH_SECS + 1

\* ------------------------------------------------------------------- state
VARIABLES
    pc,              \* position of the worker thread in audio_processing
    q,               \* audio queue (audio.py:87)
    pushed,          \* number of frames the callback has delivered
    stop_event,      \* config.stop_event
    gui_queue,       \* config.gui_queue
    recording,       \* audio.py:122
    speech,          \* audio.py:120
    caption_cache,   \* audio.py:118
    sinceStart,      \* time.time() - start_time, saturated at TimeCap
    vad,             \* the VADIterator: transient fields, configuration and
                     \* the frames its model has been run on
    translator,      \* "none", "live" or "closed"
    stats,           \* counters of the Transcriber
    stream,          \* "unopened", "open", "closed", or "broken" when
                     \* stream.close() raised
    guiPc,           \* position of the Tk thread
    last_text,       \* CaptionGUI.last_text
    terminated,      \* os._exit(0) was executed
    obs              \* observation of the run (not program state): what the
                     \* last worker step did and how often each operation ran

vars == <<pc, q, pushed, stop_event, gui_queue, recording, speech,
          caption_cache, sinceStart, vad, translator, stats, stream,
          guiPc, last_text, terminated, obs>>

\* ------------------------------------------------------------- text helpers
WhiteSpace == {" ", "\n"}

\* the texts the ASR engine may decode
Texts == { <<" ">>, <<"a", ".">> }

RECURSIVE LStrip(_)
LStrip(s) ==
    IF s = <<>> THEN <<>>
    ELSE IF s[1] \in WhiteSpace THEN LStrip(Tail(s)) ELSE s

RECURSIVE RStrip(_)
RStrip(s) ==
    IF s = <<>> THEN <<>>
    ELSE IF s[Len(s)] \in WhiteSpace THEN RStrip(SubSeq(s, 1, Len(s) - 1)) ELSE s

\* str.strip()
Strip(s) == RStrip(LStrip(s))

\* " ".join(list)
RECURSIVE JoinSpace(_)
JoinSpace(l) ==
    IF l = <<>> THEN <<>>
    ELSE IF Len(l) = 1 THEN l[1]
    ELSE l[1] \o <<" ">> \o JoinSpace(Tail(l))

\* str.replace(old, new) for a two-character old and new: leftmost,
\* non-overlapping occurrences
RECURSIVE Replace2(_, _, _)
Replace2(s, old, new) ==
    IF Len(s) < 2 THEN s
    ELSE IF s[1] = old[1] /\ s[2] = old[2]
         THEN new \o Replace2(SubSeq(s, 3, Len(s)), old, new)
         ELSE <<s[1]>> \o Replace2(Tail(s), old, new)

\* utils.py:68
SentenceBreaks(s) ==
    Replace2(Replace2(Replace2(s, <<".", " ">>, <<".", "\n">>),
                      <<"!", " ">>, <<"!", "\n">>),
             <<"?", " ">>, <<"?", "\n">>)

\* a caption that leaves out the cache
CaptionTextPartialOnly(text, cache) == SentenceBreaks(text)

\* utils.py:65-68: the string print_captions puts on gui_queue
CaptionText(text, cache) == SentenceBreaks(JoinSpace(cache \o <<text>>))

Status(tok) == <<"STATUS:", tok>>
IsStatus(m) == Len(m) > 0 /\ m[1] = "STATUS:"
\* gui_new.py:906-908: a message with the TRANSLATION: prefix is shown
\* without it
IsTranslation(m) == Len(m) > 0 /\ m[1] = "TRANSLATION:"

\* ------------------------------------------------------------ audio helpers
\* len(buffer) in samples
NumSamples(s) == Len(s) * CHUNK_SIZE

\* a lookback that keeps the whole buffer
LookbackKeepsAll(s) == s

\* speech[-lookback_size:]
Lookback(s) ==
    IF Len(s) <= LOOKBACK_CHUNKS THEN s
    ELSE SubSeq(s, Len(s) - LOOKBACK_CHUNKS + 1, Len(s))

\* speech *= 0.0
Zeroed(s) == [i \in 1..Len(s) |-> 0]

\* a max-duration test against twice the limit
TooLongDoubled(s) == NumSamples(s) > 2 * MAX_SPEECH_SECS * SAMPLING_RATE

\* audio.py:159
TooLong(s) == NumSamples(s) > MAX_SPEECH_SECS * SAMPLING_RATE

\* a refresh test that does not wait
RefreshDueAlways(t) == t >= 0

\* audio.py:166
RefreshDue(t) == t > MIN_REFRESH_SECS

\* a reset that does nothing, and one that also resets the model
SoftResetNothing(v) == v
SoftResetAll(v) ==
    [v EXCEPT !.triggered = FALSE, !.temp_end = 0, !.current_sample = 0,
              !.model = 0]

\* utils.py:72-80
soft_reset(v) == [v EXCEPT !.triggered = FALSE, !.temp_end = 0, !.current_sample = 0]

\* ------------------------------------------------------------- transcription
\* the translation backend (external): maps the text to another text
Backend(text) == [i \in 1..Len(text) |-> IF text[i] = "a" THEN "A" ELSE text[i]]

\* a translate that lets the backend's exception escape
TranslateNoCatch(text, ok) ==
    IF Strip(text) = <<>> THEN [raised |-> FALSE, text |-> <<>>]
    ELSE IF ok THEN [raised |-> FALSE, text |-> Backend(text)]
    ELSE [raised |-> TRUE, text |-> <<>>]

\* translators.py:166-201 (the same shape in every translator class):
\* ok = FALSE is the backend raising inside the try block
Translate(text, ok) ==
    IF Strip(text) = <<>> THEN [raised |-> FALSE, text |-> <<>>]
    ELSE IF ok THEN [raised |-> FALSE, text |-> Backend(text)]
    ELSE [raised |-> FALSE, text |-> text]

\* a call that translates whatever text the engine decoded
CallsTranslateBlank(tr, asr) == tr # "none"

\* a call that translates whether or not a translator exists
CallsTranslateAlways(tr, asr) == Strip(asr) # <<>>

\* transcriber.py:49: is translator.translate called for this ASR text
CallsTranslate(tr, asr) == tr # "none" /\ Strip(asr) # <<>>

\* transcriber.py:44-55: what the call gives back for the ASR output asr
Transcribed(tr, asr, ok) ==
    IF CallsTranslate(tr, asr) THEN Translate(asr, ok)
    ELSE [raised |-> FALSE, text |-> asr]

\* a Transcriber call that counts nothing
CountInferenceNot(st, nsamples) == st

\* transcriber.py:40-41
CountInference(st, nsamples) ==
    [st EXCEPT !.number_inferences = @ + 1,
               !.speech_samples = @ + nsamples]

\* transcriber.py:42,53: the clock ticks the call took are added when the call
\* returns
CountElapsed(st, ticks) == [st EXCEPT !.inference_secs = @ + ticks]

\* transcriber.py:45: the ASR engine raises; the exception leaves the call
\* before translate is reached
AsrRaises(c) == [c EXCEPT !.raised = TRUE, !.translated = FALSE, !.text = <<>>]

\* one Transcriber call as the run observes it: the buffer it was given, the
\* ASR text, whether translate was called and its backend succeeded, whether
\* an exception left the call, the text returned
Call(tr, mode, audio, asr, ok) ==
    [mode |-> mode, audio |-> audio, asr |-> asr,
     translated |-> CallsTranslate(tr, asr), ok |-> ok,
     raised |-> Transcribed(tr, asr, ok).raised,
     text |-> Transcribed(tr, asr, ok).text]

\* the inputs of a transcription call that is not made are fixed, and so is
\* the backend's outcome when translate is not called
InputsFor(tr, made, asr, ok) ==
    /\ (~made => asr = <<" ">>)
    /\ (~(made /\ CallsTranslate(tr, asr)) => ok)

\* ---------------------------------------------------------------- segmenter
Events == SUBSET {"start", "end"}

\* an accumulator that keeps only the frame while idle
AccumulateFrameOnly(sp, rec, block) ==
    IF rec THEN sp \o <<block>> ELSE <<block>>

\* audio.py:139-141
Accumulate(sp, rec, block) ==
    IF rec THEN sp \o <<block>> ELSE Lookback(sp \o <<block>>)

\* the start branch without its test of recording
StartsRecordingUnguarded(ev, rec) == ev # {} /\ "start" \in ev

\* audio.py:147
StartsRecording(ev, rec) == ev # {} /\ "start" \in ev /\ ~rec

\* the end branch without its test of recording
EndsRecordingUnguarded(ev, rec) == ev # {} /\ "end" \in ev

\* audio.py:153, evaluated after the start branch
EndsRecording(ev, rec) == ev # {} /\ "end" \in ev /\ rec

\* a loop without the max-duration branch
CutsOffNever(ev, rec, sp) == FALSE

\* audio.py:157-159
CutsOff(ev, rec, sp) == ev = {} /\ rec /\ TooLong(sp)

\* audio.py:157,166: the refresh test sits in the branch entered with
\* recording set, after the max-duration test, and does not re-read recording
Refreshes(ev, rec, t) == ev = {} /\ rec /\ RefreshDue(t)

\* the VADIterator call (audio.py:144): the detector is external, its event
\* and its temp_end are inputs
VadStep(v, ev, te) ==
    [v EXCEPT !.triggered = IF "end" \in ev THEN FALSE
                            ELSE IF "start" \in ev THEN TRUE ELSE @,
              !.temp_end = te,
              !.current_sample = 1,
              !.model = @ + 1]

Saturate(t) == IF t >= TimeCap THEN TimeCap ELSE t

\* an end_recording that publishes after it has cached the text
EndRecordingCaptionCachedFirst(text, cache) == CaptionText(text, Append(cache, text))
\* utils.py:41-54 end_recording, for the text the transcriber returned:
\* the caption it publishes, the cache and the buffer it leaves
EndRecordingCaption(text, cache) == CaptionText(text, cache)
\* an end_recording that forgets the text, and one that caches it trimmed
EndRecordingCacheForgets(text, cache) == cache
EndRecordingCacheTrims(text, cache) == Append(cache, Strip(text))
\* an end_recording that puts the text in front of the cache
EndRecordingCachePrepends(text, cache) == <<text>> \o cache
EndRecordingCache(text, cache) == Append(cache, text)
\* an end_recording that leaves the buffer as it is
EndRecordingSpeechKeeps(sp) == sp
EndRecordingSpeech(sp) == Zeroed(sp)

\* a drain that puts the frame in front of the buffer
DrainPrepend(sp, block) == <<block>> \o sp

\* audio.py:182
DrainAppend(sp, block) == sp \o <<block>>

\* an exception of the final pass that leaves the function
AfterFinalPassEscapes(raised) == IF raised THEN "done" ELSE "close"

\* audio.py:178-188: the final pass sits in its own try/except: the worker
\* goes on to the teardown whether or not it raised
AfterFinalPass(raised) == "close"

\* a final pass that does not look at the recording flag
FinalPassRunsAlways(rec) == TRUE

\* audio.py:178: the final pass is made only when an utterance is open
FinalPassRuns(rec) == rec

\* the fault of the shutdown drain: np.concatenate raises (audio.py:182)
DrainFaults == {"none", "concat"}

\* a put at the head of the queue
QueuePutFront(qq, item) == <<item>> \o qq

\* utils.py:36 q.put on the Queue() of audio.py:87, which has no maxsize: the
\* item goes to the tail and the call never waits for room
QueuePut(qq, item) == Append(qq, item)

\* a callback that drops a block delivered with a status flag
EnqueuedUnlessStatus(qq, data, status) ==
    IF status THEN qq ELSE QueuePut(qq, [data |-> data, status |-> status])

\* utils.py:33-36: the callback prints a status that is set and puts the
\* block with its status on the queue either way
Enqueued(qq, data, status) == QueuePut(qq, [data |-> data, status |-> status])

\* a loop that does not look at the flag
LeavesLoopNever(stop) == FALSE

\* audio.py:128: while not stop_event.is_set()
LeavesLoop(stop) == stop

\* the faults of the external engines inside one loop iteration: the detector
\* raises (audio.py:144), the ASR engine raises in the finalizing call
\* (utils.py:50) or in the refresh call (audio.py:167)
LoopFaults == {"none", "vad", "asr1", "asr2"}

\* the fault of the teardown: stream.close() raises (audio.py:188)
TeardownFaults == {"none", "stream"}

\* an exception that leaves the function without running the finally block
LoopExitSkipsFinally(raised) == IF raised THEN "done" ELSE "check"

\* audio.py:127-176: where the worker goes after an iteration: an exception
\* leaves the while loop for the except and finally blocks
LoopExit(raised) == IF raised THEN "finally" ELSE "check"

\* a teardown that leaves the translator as it is
ClosedTranslatorNot(tr) == tr

\* audio.py:191-192
ClosedTranslator(tr) == IF tr = "none" THEN "none" ELSE "closed"

\* audio.py:172-175
LoopErrorMsgs == <<Status("LoopError"), <<"LoopError">>>>

\* what one loop iteration did, as the run observes it
NoStep == [ev |-> {}, wasRec |-> FALSE, status |-> FALSE,
           finals |-> 0, refreshes |-> 0,
           resets |-> 0, cacheBefore |-> 0]

\* -------------------------------------------------------------------- Init
Init ==
    /\ pc = "start"
    /\ q = <<>>
    /\ pushed = 0
    /\ stop_event = FALSE
    /\ gui_queue = <<>>
    /\ recording = FALSE
    /\ speech = <<>>
    /\ caption_cache = <<>>
    /\ sinceStart = 0
    /\ vad = [triggered |-> FALSE, temp_end |-> 0, current_sample |-> 0,
              threshold |-> "0.5", min_silence_duration_ms |-> "2000",
              model |-> 0]
    /\ translator = "none"
    /\ stats = [number_inferences |-> 0, speech_samples |-> 0,
                 inference_secs |-> 0]
    /\ stream = "unopened"
    /\ guiPc = "run"
    /\ last_text = <<>>
    /\ terminated = FALSE
    /\ obs = [op |-> "none", last |-> NoStep, prev |-> NoStep,
              startSeen |-> FALSE, starts |-> 0, finals |-> 0,
              refreshes |-> 0, resets |-> 0, drained |-> 0,
              sinceMark |-> 0, gap |-> 0, calls |-> <<>>, failed |-> 0,
              lastFinal |-> <<>>, afterStop |-> 0, elapsed |-> 0,
              closes |-> 0, aborted |-> FALSE, drainFailed |-> FALSE,
              statsPrinted |-> FALSE, lastCaption |-> <<>>, captions |-> 0]

\* ------------------------------------------------------------ audio callback
\* utils.py:33-36 input_callback, called by the open stream with a block and
\* a status flag out of Flags
InputCallbackStep(Flags) ==
    /\ ~terminated
    /\ stream = "open"
    /\ pushed < MaxFrames
    /\ pushed' = pushed + 1
    /\ \E status \in Flags : q' = Enqueued(q, pushed + 1, status)
    /\ UNCHANGED <<pc, stop_event, gui_queue, recording, speech, caption_cache,
                   sinceStart, vad, translator, stats, stream, guiPc,
                   last_text, terminated, obs>>

\* the callback when the stream reports no overflow or underrun
InputCallback == InputCallbackStep({FALSE})

\* the callback with and without a status flag
InputCallbackFlagged == InputCallbackStep(BOOLEAN)

\* the clock advances by one tick while an utterance is being recorded
\* (start_time is read in no other state)
Tick ==
    /\ ~terminated
    /\ pc \in {"check", "get"}
    /\ recording
    /\ sinceStart < TimeCap
    /\ sinceStart' = Saturate(sinceStart + 1)
    /\ obs' = [obs EXCEPT !.sinceMark = Saturate(@ + 1)]
    /\ UNCHANGED <<pc, q, pushed, stop_event, gui_queue, recording, speech,
                   caption_cache, vad, translator, stats, stream, guiPc,
                   last_text, terminated>>

\* ------------------------------------------------------------------ worker
\* audio.py:29-126: everything before the frame loop.  trOutcome is what
\* creating the translator did, the flags say whether the transcriber, the
\* detector and the input stream could be set up.
Startup ==
    /\ ~terminated
    /\ pc = "start"
    /\ \E trOutcome \in {"none", "ok", "ImportError", "Exception"},
          transcriberOk \in BOOLEAN, vadOk \in BOOLEAN, deviceOk \in BOOLEAN :
        LET tr == IF trOutcome = "ok" THEN "live" ELSE "none"
            trMsgs == CASE trOutcome = "none" -> <<>>
                        [] trOutcome = "ok" -> <<Status("TranslatorReady")>>
                        [] OTHER -> <<Status("TranslatorError"), <<"TranslatorError">>>>
            m0 == <<Status("LoadingModel")>> \o trMsgs \o <<Status("TranscriberInit")>>
            m1 == m0 \o <<Status("TranscriberReady"), Status("VadInit")>>
            m2 == m1 \o <<Status("VadReady"), Status("Device")>>
        IN
        /\ (~transcriberOk => vadOk /\ deviceOk)
        /\ (~vadOk => deviceOk)
        /\ translator' = tr
        /\ IF ~transcriberOk
           THEN /\ gui_queue' = gui_queue \o m0 \o <<Status("TranscriberError")>>
                /\ pc' = "done"
                /\ UNCHANGED <<stats, stream>>
           ELSE /\ stats' = CountInference(stats, SAMPLING_RATE)
                /\ IF ~vadOk
                   THEN /\ gui_queue' = gui_queue \o m1 \o <<Status("VadError")>>
                        /\ pc' = "done"
                        /\ UNCHANGED stream
                   ELSE IF ~deviceOk
                   THEN /\ gui_queue' = gui_queue \o m2
                                \o <<Status("DeviceError"), <<"DeviceError">>>>
                        /\ pc' = "done"
                        /\ UNCHANGED stream
                   ELSE /\ gui_queue' = gui_queue \o m2
                                \o <<Status("Ready"), <<"Ready">>>>
                        /\ pc' = "check"
                        /\ stream' = "open"
    /\ obs' = [obs EXCEPT !.op = "startup", !.calls = <<>>, !.elapsed = 0]
    /\ UNCHANGED <<q, pushed, stop_event, recording, speech, caption_cache,
                   sinceStart, vad, guiPc, last_text, terminated>>

\* audio.py:128: while not stop_event.is_set()
LoopCheck ==
    /\ ~terminated
    /\ pc = "check"
    /\ pc' = IF LeavesLoop(stop_event) THEN "finally" ELSE "get"
    /\ obs' = [obs EXCEPT !.op = "check", !.calls = <<>>, !.elapsed = 0]
    /\ UNCHANGED <<q, pushed, stop_event, gui_queue, recording, speech,
                   caption_cache, sinceStart, vad, translator, stats, stream,
                   guiPc, last_text, terminated>>

\* a timeout that gives up the utterance being recorded
GetTimeoutAbandons ==
    /\ ~terminated
    /\ pc = "get"
    /\ q = <<>>
    /\ pc' = "check"
    /\ recording' = FALSE
    /\ speech' = <<>>
    /\ obs' = [obs EXCEPT !.op = "timeout", !.calls = <<>>, !.elapsed = 0]
    /\ UNCHANGED <<q, pushed, stop_event, gui_queue, caption_cache, sinceStart,
                   vad, translator, stats, stream, guiPc, last_text,
                   terminated>>

\* audio.py:131-133: q.get(timeout=0.5) raises Empty
GetTimeout ==
    /\ ~terminated
    /\ pc = "get"
    /\ q = <<>>
    /\ pc' = "check"
    /\ obs' = [obs EXCEPT !.op = "timeout", !.calls = <<>>, !.elapsed = 0]
    /\ UNCHANGED <<q, pushed, stop_event, gui_queue, recording, speech,
                   caption_cache, sinceStart, vad, translator, stats, stream,
                   guiPc, last_text, terminated>>

\* audio.py:135-175: one iteration of the loop on a dequeued frame.
\*   ev        the detector's event for the frame
\*   te        the detector's temp_end after the frame
\*   a1, k1    ASR text and backend outcome of the finalizing call
\*   d         clock ticks the finalizing call of a cutoff took
\*   a2, k2    ASR text and backend outcome of the refresh call
\*   fault     which external engine raises in this iteration, out of Faults
ProcessFrameStep(Faults) ==
    /\ ~terminated
    /\ pc = "get"
    /\ q # <<>>
    /\ \E fault \in Faults, ev \in Events, te \in 0..1 :
       /\ (fault = "vad" => ev = {})
       /\ (ev # {} \/ ~vad.triggered => te = 0)
       /\ LET chunk == Head(q)
              sp1 == Accumulate(speech, recording, chunk.data)
              vadFault == fault = "vad"
              vad1 == IF vadFault THEN vad ELSE VadStep(vad, ev, te)
              started == ~vadFault /\ StartsRecording(ev, recording)
              rec1 == recording \/ started
              ended == ~vadFault /\ EndsRecording(ev, rec1)
              cutoff == ~vadFault /\ CutsOff(ev, recording, sp1)
              final == ended \/ cutoff
          IN
          /\ (fault = "asr1" => final)
          /\ \E a1 \in Texts, k1 \in BOOLEAN :
             /\ InputsFor(translator, final /\ fault # "asr1", a1, k1)
             /\ LET c1 == IF fault = "asr1"
                          THEN AsrRaises(Call(translator, "final", sp1, a1, k1))
                          ELSE Call(translator, "final", sp1, a1, k1)
                    done1 == final /\ ~c1.raised
                    raised1 == final /\ c1.raised
                    cache1 == IF done1
                              THEN EndRecordingCache(c1.text, caption_cache)
                              ELSE caption_cache
                    sp2 == IF done1 THEN EndRecordingSpeech(sp1) ELSE sp1
                IN
                \E d \in 0..1 :
                /\ (~(cutoff /\ done1) => d = 0)
                /\ LET t1 == IF started THEN 0
                             ELSE IF cutoff THEN Saturate(sinceStart + d)
                             ELSE sinceStart
                       refresh == /\ ~vadFault
                                  /\ Refreshes(ev, recording, t1)
                                  /\ ~raised1
                   IN
                   /\ (fault = "asr2" => refresh)
                   /\ \E a2 \in Texts, k2 \in BOOLEAN :
                      /\ InputsFor(translator, refresh /\ fault # "asr2", a2, k2)
                      /\ LET
                              c2 == IF fault = "asr2"
                                    THEN AsrRaises(Call(translator, "refresh", sp2, a2, k2))
                                    ELSE Call(translator, "refresh", sp2, a2, k2)
                              done2 == refresh /\ ~c2.raised
                              raised == vadFault \/ raised1 \/ (refresh /\ c2.raised)
                              st0 == IF final THEN CountInference(stats, NumSamples(sp1)) ELSE stats
                              st1 == IF done1 THEN CountElapsed(st0, d) ELSE st0
                              st2 == IF refresh THEN CountInference(st1, NumSamples(sp2)) ELSE st1
                              finalCaption == EndRecordingCaption(c1.text, caption_cache)
                              msgs == (IF started THEN <<Status("SpeechDetected")>> ELSE <<>>)
                                   \o (IF done1 THEN <<finalCaption>> ELSE <<>>)
                                   \o (IF ended /\ done1 THEN <<Status("Processed")>> ELSE <<>>)
                                   \o (IF cutoff /\ done1 THEN <<Status("ProcessedMaxDuration")>>
                                       ELSE <<>>)
                                   \o (IF done2 THEN <<CaptionText(c2.text, cache1)>> ELSE <<>>)
                                   \o (IF raised THEN LoopErrorMsgs ELSE <<>>)
                              mark == IF started THEN 0
                                      ELSE IF cutoff THEN Saturate(obs.sinceMark + d)
                                      ELSE obs.sinceMark
                          IN
                          /\ q' = Tail(q)
                          /\ recording' = (rec1 /\ ~final)
                          /\ speech' = sp2
                          /\ caption_cache' = cache1
                          /\ vad' = IF cutoff /\ done1 THEN soft_reset(vad1) ELSE vad1
                          /\ sinceStart' = IF done2 THEN 0 ELSE t1
                          /\ stats' = st2
                          /\ gui_queue' = gui_queue \o msgs
                          /\ pc' = LoopExit(raised)
                          /\ obs' = [op |-> "frame",
                                     last |-> [ev |-> ev, wasRec |-> recording,
                                               status |-> chunk.status,
                                               finals |-> IF final THEN 1 ELSE 0,
                                               refreshes |-> IF refresh THEN 1 ELSE 0,
                                               resets |-> IF cutoff /\ done1 THEN 1 ELSE 0,
                                               cacheBefore |-> Len(caption_cache)],
                                     prev |-> obs.last,
                                     startSeen |-> obs.startSeen \/ "start" \in ev,
                                     starts |-> obs.starts + (IF started THEN 1 ELSE 0),
                                     finals |-> obs.finals + (IF final THEN 1 ELSE 0),
                                     refreshes |-> obs.refreshes + (IF refresh THEN 1 ELSE 0),
                                     resets |-> obs.resets + (IF cutoff /\ done1 THEN 1 ELSE 0),
                                     drained |-> obs.drained,
                                     sinceMark |-> IF refresh THEN 0 ELSE mark,
                                     gap |-> IF refresh THEN mark ELSE obs.gap,
                                     calls |-> (IF final THEN <<c1>> ELSE <<>>)
                                               \o (IF refresh THEN <<c2>> ELSE <<>>),
                                     failed |-> obs.failed
                                                + (IF final /\ c1.translated /\ ~k1 THEN 1 ELSE 0)
                                                + (IF refresh /\ c2.translated /\ ~k2 THEN 1 ELSE 0),
                                     lastFinal |-> IF done1 THEN finalCaption ELSE obs.lastFinal,
                                     afterStop |-> obs.afterStop + (IF stop_event THEN 1 ELSE 0),
                                     elapsed |-> IF done1 THEN d ELSE 0,
                                     closes |-> obs.closes,
                                     aborted |-> raised,
                                     drainFailed |-> obs.drainFailed,
                                     statsPrinted |-> obs.statsPrinted,
                                     lastCaption |-> obs.lastCaption,
                                     captions |-> obs.captions]
    /\ UNCHANGED <<pushed, stop_event, translator, stream, guiPc, last_text,
                   terminated>>

\* the iteration when no external engine raises
ProcessFrame == ProcessFrameStep({"none"})

\* the iteration with the external engines' faults
ProcessFrameFaulty == ProcessFrameStep(LoopFaults)

\* audio.py:180-182: the shutdown drain takes one queued frame; when the
\* concatenation raises, the handler at audio.py:184 ends the final pass
DrainStep(Faults) ==
    /\ ~terminated
    /\ pc = "finally"
    /\ FinalPassRuns(recording)
    /\ q # <<>>
    /\ q' = Tail(q)
    /\ \E fault \in Faults :
        IF fault = "concat"
        THEN /\ pc' = AfterFinalPass(TRUE)
             /\ obs' = [obs EXCEPT !.op = "drain", !.calls = <<>>,
                                   !.elapsed = 0, !.drainFailed = TRUE]
             /\ UNCHANGED speech
        ELSE /\ speech' = DrainAppend(speech, Head(q).data)
             /\ obs' = [obs EXCEPT !.op = "drain", !.calls = <<>>,
                                   !.elapsed = 0, !.drained = @ + 1]
             /\ UNCHANGED pc
    /\ UNCHANGED <<pushed, stop_event, gui_queue, recording, caption_cache,
                   sinceStart, vad, translator, stats, stream, guiPc,
                   last_text, terminated>>

Drain == DrainStep({"none"})

DrainFaulty == DrainStep(DrainFaults)

\* audio.py:178-185: the queue is empty (or nothing is being recorded): the
\* trailing utterance, if any, is finalized; an exception is caught and logged
ShutdownFinalizeStep(Faults) ==
    /\ ~terminated
    /\ pc = "finally"
    /\ (FinalPassRuns(recording) => q = <<>>)
    /\ \E a1 \in Texts, k1 \in BOOLEAN, fault \in Faults \cap {"none", "asr1"} :
        LET c1 == IF fault = "asr1"
                  THEN AsrRaises(Call(translator, "final", speech, a1, k1))
                  ELSE Call(translator, "final", speech, a1, k1)
            finalCaption == EndRecordingCaption(c1.text, caption_cache)
        IN
        /\ InputsFor(translator, FinalPassRuns(recording) /\ fault # "asr1", a1, k1)
        /\ (fault = "asr1" => FinalPassRuns(recording))
        /\ IF FinalPassRuns(recording)
           THEN /\ stats' = CountInference(stats, NumSamples(speech))
                /\ obs' = [obs EXCEPT !.op = "shutdown", !.calls = <<c1>>,
                             !.elapsed = 0,
                             !.drainFailed = c1.raised,
                             !.finals = @ + 1,
                             !.failed = @ + (IF c1.translated /\ ~k1 THEN 1 ELSE 0),
                             !.lastFinal = IF c1.raised THEN @ ELSE finalCaption]
                /\ IF c1.raised
                   THEN UNCHANGED <<gui_queue, caption_cache, speech>>
                   ELSE /\ gui_queue' = Append(gui_queue, finalCaption)
                        /\ caption_cache' = EndRecordingCache(c1.text, caption_cache)
                        /\ speech' = EndRecordingSpeech(speech)
           ELSE /\ obs' = [obs EXCEPT !.op = "shutdown", !.calls = <<>>,
                                      !.elapsed = 0]
                /\ UNCHANGED <<gui_queue, caption_cache, speech, stats>>
        /\ pc' = AfterFinalPass(FinalPassRuns(recording) /\ c1.raised)
    /\ UNCHANGED <<q, pushed, stop_event, recording, sinceStart, vad,
                   translator, stream, guiPc, last_text, terminated>>

ShutdownFinalize == ShutdownFinalizeStep({"none"})

ShutdownFinalizeFaulty == ShutdownFinalizeStep(LoopFaults)

\* audio.py:187-205: close the stream, close the translator, print the
\* statistics, report.  None of the calls is guarded: when stream.close()
\* raises, the exception leaves the function through the with block and the
\* steps behind it are not run.
TeardownStep(Faults) ==
    /\ ~terminated
    /\ pc = "close"
    /\ \E fault \in Faults :
        IF fault = "stream"
        THEN /\ stream' = "broken"
             /\ obs' = [obs EXCEPT !.op = "teardown", !.calls = <<>>,
                                   !.elapsed = 0]
             /\ UNCHANGED <<translator, gui_queue>>
        ELSE /\ stream' = "closed"
             /\ translator' = ClosedTranslator(translator)
             /\ gui_queue' = Append(gui_queue, Status("Stopped"))
             /\ obs' = [obs EXCEPT !.op = "teardown", !.calls = <<>>,
                                   !.elapsed = 0,
                                   !.closes = @ + (IF translator = "live" THEN 1 ELSE 0),
                                   !.statsPrinted = TRUE]
    /\ pc' = "done"
    /\ UNCHANGED <<q, pushed, stop_event, recording, speech, caption_cache,
                   sinceStart, vad, stats, guiPc, last_text, terminated>>

Teardown == TeardownStep({"none"})

TeardownFaulty == TeardownStep(TeardownFaults)

\* --------------------------------------------------------------- Tk thread
\* the caption left on display after the messages ms were handled
\* (gui_new.py:898-921)
\* a display that appends every caption to what it shows
RECURSIVE DisplayedAppends(_, _)
DisplayedAppends(shown, ms) ==
    IF ms = <<>> THEN shown
    ELSE IF IsStatus(Head(ms)) THEN DisplayedAppends(shown, Tail(ms))
    ELSE DisplayedAppends(shown \o Head(ms), Tail(ms))

RECURSIVE Displayed(_, _)
Displayed(shown, ms) ==
    IF ms = <<>> THEN shown
    ELSE IF IsStatus(Head(ms)) THEN Displayed(shown, Tail(ms))
    ELSE IF IsTranslation(Head(ms)) THEN Displayed(Tail(Head(ms)), Tail(ms))
    ELSE Displayed(Head(ms), Tail(ms))

\* gui_new.py:895-927 update_gui: drains gui_queue
UpdateGui ==
    /\ ~terminated
    /\ guiPc = "run"
    /\ gui_queue # <<>>
    /\ last_text' = Displayed(last_text, gui_queue)
    /\ gui_queue' = <<>>
    /\ UNCHANGED <<pc, q, pushed, stop_event, recording, speech, caption_cache,
                   sinceStart, vad, translator, stats, stream, guiPc,
                   terminated, obs>>

\* what the worker puts on gui_queue: statuses (audio.py:125, 150), the
\* "ready" text (audio.py:126) and the captions of print_captions
\* (utils.py:70) for a cache of at most one entry
Messages ==
    {Status("Ready"), Status("SpeechDetected"), <<"Ready">>}
    \cup {CaptionText(t, c) : t \in Texts, c \in {<<>>} \cup {<<u>> : u \in Texts}}

\* a gui_queue.put of the worker thread, seen from the Tk thread: any of the
\* worker's messages, at any time
Publish ==
    /\ ~terminated
    /\ Len(gui_queue) < MaxPending
    /\ \E m \in Messages :
        /\ gui_queue' = Append(gui_queue, m)
        /\ obs' = [obs EXCEPT !.op = "publish",
                              !.lastCaption = IF IsStatus(m) THEN @ ELSE m,
                              !.captions = IF IsStatus(m) THEN @ ELSE 1]
    /\ UNCHANGED <<pc, q, pushed, stop_event, recording, speech, caption_cache,
                   sinceStart, vad, translator, stats, stream, guiPc,
                   last_text, terminated>>

\* gui_new.py:929-934 exit_application: the user confirms, stop_event is set
ExitApplication ==
    /\ ~terminated
    /\ guiPc = "run"
    /\ stop_event' = TRUE
    /\ guiPc' = "exiting"
    /\ UNCHANGED <<pc, q, pushed, gui_queue, recording, speech, caption_cache,
                   sinceStart, vad, translator, stats, stream, last_text,
                   terminated, obs>>

\* gui_new.py:937-941: quit, destroy, os._exit(0)
OsExit ==
    /\ ~terminated
    /\ guiPc = "exiting"
    /\ terminated' = TRUE
    /\ guiPc' = "exited"
    /\ UNCHANGED <<pc, q, pushed, stop_event, gui_queue, recording, speech,
                   caption_cache, sinceStart, vad, translator, stats, stream,
                   last_text, obs>>

\* the segmentation pipeline with its producer and the shutdown request; the
\* messages stay on gui_queue, which then is the record of what was published
Next ==
    \/ InputCallback
    \/ Tick
    \/ Startup
    \/ LoopCheck
    \/ GetTimeout
    \/ ProcessFrame
    \/ Drain
    \/ ShutdownFinalize
    \/ Teardown
    \/ ExitApplication
    \/ OsExit

Spec == Init /\ [][Next]_vars

\* the same pipeline when the detector, the ASR engine and stream.close() may
\* raise
NextFaults ==
    \/ InputCallback
    \/ Tick
    \/ Startup
    \/ LoopCheck
    \/ GetTimeout
    \/ ProcessFrameFaulty
    \/ DrainFaulty
    \/ ShutdownFinalizeFaulty
    \/ TeardownFaulty
    \/ ExitApplication
    \/ OsExit

SpecFaults == Init /\ [][NextFaults]_vars

\* the running pipeline (no shutdown is requested) when the stream delivers
\* blocks with and without a status flag
NextFlagged ==
    \/ InputCallbackFlagged
    \/ Tick
    \/ Startup
    \/ LoopCheck
    \/ GetTimeout
    \/ ProcessFrame

SpecFlagged == Init /\ [][NextFlagged]_vars

\* the consumer side: the Tk thread's update_gui and exit_application against
\* a worker that publishes any of its messages
NextGui ==
    \/ Publish
    \/ UpdateGui
    \/ ExitApplication
    \/ OsExit

SpecGui == Init /\ [][NextGui]_vars

TypeOK ==
    /\ pc \in {"start", "check", "get", "finally", "close", "done"}
    /\ pushed \in 0..MaxFrames
    /\ recording \in BOOLEAN
    /\ sinceStart \in 0..TimeCap
    /\ translator \in {"none", "live", "closed"}
    /\ stream \in {"unopened", "open", "closed", "broken"}

\* ------------------------------------------------------------------- claims
\* frames the worker has taken off the audio queue
Consumed == pushed - Len(q)

\* more samples than MAX_SPEECH_SECS of audio
OverMax(s) == Len(s) * CHUNK_SIZE > MAX_SPEECH_SECS * SAMPLING_RATE

\* the blocks of a buffer are frames in arrival order, behind zeroed blocks
InArrivalOrder(s) ==
    \A i \in 1..(Len(s) - 1) :
        s[i] # 0 => s[i + 1] = s[i] + 1

\* C1: as long as no frame's VAD event contained start, the worker is IDLE
\* after every frame and has made no end_recording call, whatever other
\* events the detector returned.
C1_NoStartStaysIdle ==
    ~obs.startSeen =>
        /\ ~recording
        /\ obs.finals = 0
        /\ obs.starts = 0
        /\ caption_cache = <<>>

C1_Witness ==
    /\ ~obs.startSeen
    /\ obs.op = "frame"
    /\ obs.last.ev = {"end"}
    /\ Consumed >= 2

\* C2 as stated: from IDLE, a frame whose event contains start followed on
\* the next frame by an event containing end makes exactly one end_recording
\* call over the two frames, the cache grows by exactly one entry and the
\* segmenter is IDLE again.
C2_Original ==
    (/\ obs.op = "frame"
     /\ ~obs.prev.wasRec
     /\ "start" \in obs.prev.ev
     /\ "end" \in obs.last.ev)
    => /\ obs.prev.finals + obs.last.finals = 1
       /\ Len(caption_cache) = obs.prev.cacheBefore + 1
       /\ ~recording

\* C2 amended: the same, unless both events contain start and end: then each
\* of the two frames starts an utterance and finalizes it (two end_recording
\* calls, two cache entries); the segmenter is IDLE again in either case.
C2_StartThenEnd ==
    (/\ obs.op = "frame"
     /\ ~obs.prev.wasRec
     /\ "start" \in obs.prev.ev
     /\ "end" \in obs.last.ev)
    => LET twice == obs.prev.ev = {"start", "end"} /\ obs.last.ev = {"start", "end"}
           n == IF twice THEN 2 ELSE 1
       IN /\ obs.prev.finals + obs.last.finals = n
          /\ Len(caption_cache) = obs.prev.cacheBefore + n
          /\ ~recording

C2_Witness ==
    /\ obs.op = "frame"
    /\ ~obs.prev.wasRec
    /\ obs.prev.ev = {"start"}
    /\ obs.last.ev = {"end"}
    /\ obs.last.finals = 1
    /\ Len(caption_cache) = obs.prev.cacheBefore + 1

\* C3 as stated: while RECORDING, on a frame whose event does not contain
\* end, an accumulator that has grown past MAX_SPEECH_SECS is finalized in
\* that step, the VAD is soft-reset and the segmenter returns to IDLE.
C3_Original ==
    (/\ obs.op = "frame"
     /\ obs.last.wasRec
     /\ "end" \notin obs.last.ev
     /\ OverMax(speech))
    => /\ obs.last.finals = 1
       /\ obs.last.resets = 1
       /\ ~recording

\* C3 amended: while RECORDING, on a frame for which the detector returns no
\* event at all, an accumulator that has grown past MAX_SPEECH_SECS is
\* finalized exactly once in that step, the VAD is soft-reset and the
\* segmenter returns to IDLE; and every frame step, also after a cutoff, takes
\* the frame off the queue and leaves it as the last block of the accumulator
\* (zeroed when the step finalized).
C3_CutoffOnNoEvent ==
    /\ []((/\ obs.op = "frame"
           /\ obs.last.wasRec
           /\ obs.last.ev = {}
           /\ OverMax(speech))
          => /\ obs.last.finals = 1
             /\ obs.last.resets = 1
             /\ obs.finals = obs.starts
             /\ ~recording
             /\ ~vad.triggered /\ vad.temp_end = 0 /\ vad.current_sample = 0
             /\ \A i \in 1..Len(speech) : speech[i] = 0)
    /\ [][(pc = "get" /\ pc' # "get" /\ q # <<>>)
          => /\ q' = Tail(q)
             /\ speech' # <<>>
             /\ speech'[Len(speech')] =
                    IF obs'.last.finals = 1 THEN 0 ELSE Head(q).data]_vars

C3_Witness ==
    /\ obs.op = "frame"
    /\ obs.prev.wasRec /\ obs.prev.ev = {} /\ obs.prev.resets = 1
    /\ ~obs.last.wasRec
    /\ speech[Len(speech)] = Consumed

\* C4 as stated: whenever the segmenter is IDLE in the loop, the accumulator
\* holds at most LOOKBACK_CHUNKS * CHUNK_SIZE samples, also right after an
\* utterance was finalized.
C4_Original ==
    (pc \in {"check", "get"} /\ ~recording)
    => Len(speech) * CHUNK_SIZE <= LOOKBACK_CHUNKS * CHUNK_SIZE

\* C4 amended: whenever the segmenter is IDLE, the accumulator holds at most
\* LOOKBACK_CHUNKS * CHUNK_SIZE samples, except after the step that finalized
\* an utterance that was being recorded: until the next frame is processed the
\* accumulator keeps the utterance's length, with every sample zero.
C4_IdleBufferBounded ==
    /\ (~recording /\ ~(obs.last.wasRec /\ obs.last.finals = 1))
       => Len(speech) * CHUNK_SIZE <= LOOKBACK_CHUNKS * CHUNK_SIZE
    /\ (~recording /\ obs.last.wasRec /\ obs.last.finals = 1)
       => \A i \in 1..Len(speech) : speech[i] = 0

C4_Witness ==
    /\ ~recording
    /\ obs.op = "frame"
    /\ obs.prev.wasRec /\ obs.prev.finals = 1
    /\ obs.last.finals = 0
    /\ Len(speech) = LOOKBACK_CHUNKS
    /\ speech[1] = 0

\* C5 as stated: in every reachable state the accumulator holds at most
\* MAX_SPEECH_SECS * SAMPLING_RATE samples.
C5_Original == Len(speech) * CHUNK_SIZE <= MAX_SPEECH_SECS * SAMPLING_RATE

\* C5 amended: after every loop step on a frame for which the detector
\* returned no event, a segmenter that is still RECORDING holds at most
\* MAX_SPEECH_SECS * SAMPLING_RATE samples.
C5_RecordingBounded ==
    (obs.op = "frame" /\ obs.last.ev = {} /\ recording) => ~OverMax(speech)

C5_Witness ==
    /\ obs.op = "frame"
    /\ obs.last.ev = {}
    /\ obs.last.wasRec
    /\ recording
    /\ ~OverMax(speech)
    /\ OverMax(speech \o <<0>>)

\* C6: at shutdown while RECORDING the worker first empties the audio queue
\* into the accumulator in queue order and then calls end_recording exactly
\* once on it: the buffer given to the transcriber ends with the last frame
\* delivered before the call, its frames are in arrival order, and the cache
\* holds one entry for every utterance started.
C6_ShutdownDrains ==
    (obs.op = "shutdown" /\ recording)
    => /\ Len(obs.calls) = 1
       /\ obs.calls[1].mode = "final"
       /\ obs.calls[1].audio # <<>>
       /\ obs.calls[1].audio[Len(obs.calls[1].audio)] = Consumed
       /\ InArrivalOrder(obs.calls[1].audio)
       /\ Len(speech) = Len(obs.calls[1].audio)
       /\ obs.finals = obs.starts
       /\ Len(caption_cache) = obs.finals

C6_Witness ==
    /\ obs.op = "shutdown"
    /\ recording
    /\ obs.drained >= 2
    /\ Len(obs.calls[1].audio) >= 3

\* C7: when the process has terminated after a shutdown request made while
\* RECORDING, the worker has finished its final pass and its teardown.
C7_ExitWaitsForWorker == (terminated /\ recording) => pc = "done"

\* C8: every refresh pass comes more than MIN_REFRESH_SECS after the
\* utterance start or the previous refresh, and start_time is set only at an
\* utterance start and at a refresh.
C8_RefreshSpacing ==
    /\ [](obs.refreshes > 0 => obs.gap > MIN_REFRESH_SECS)
    /\ [][sinceStart' < sinceStart
          => (obs'.starts > obs.starts \/ obs'.refreshes > obs.refreshes)]_vars

C8_Witness ==
    /\ obs.op = "frame"
    /\ obs.prev.refreshes = 1
    /\ obs.last.refreshes = 1
    /\ obs.gap > MIN_REFRESH_SECS

\* C9 as stated: the final caption published for an utterance is the
\* space-joined concatenation of the cache entries after the utterance was
\* appended.
C9_Original ==
    caption_cache # <<>> => obs.lastFinal = JoinSpace(caption_cache)

\* C9 amended: the final caption published for an utterance is the
\* space-joined concatenation of the cache entries after the utterance was
\* appended, in which every ". ", "! " and "? " is replaced by the mark
\* followed by a line break.
C9_FinalCaptionIsCache ==
    caption_cache # <<>> =>
        /\ obs.lastFinal = SentenceBreaks(JoinSpace(caption_cache))
        /\ \E i \in 1..Len(gui_queue) : gui_queue[i] = obs.lastFinal

C9_Witness ==
    /\ Len(caption_cache) = 2
    /\ obs.lastFinal = SentenceBreaks(JoinSpace(caption_cache))
    /\ obs.lastFinal # JoinSpace(caption_cache)

\* C10: a Transcriber call whose translate call fails returns the ASR text
\* untranslated, no exception leaves it, and the loop goes on to its next
\* iteration.
C10_TranslateFailureFallsBack ==
    \A i \in 1..Len(obs.calls) :
        (obs.calls[i].translated /\ ~obs.calls[i].ok)
        => /\ ~obs.calls[i].raised
           /\ obs.calls[i].text = obs.calls[i].asr
           /\ (obs.op = "frame" => pc = "check")
           /\ (obs.calls[i].mode = "final"
               => caption_cache[Len(caption_cache)] = obs.calls[i].asr)

C10_Witness ==
    /\ obs.op = "frame"
    /\ obs.failed >= 1
    /\ \A i \in 1..Len(obs.calls) : obs.calls[i].ok
    /\ Consumed >= 2
    /\ translator = "live"
    /\ caption_cache # <<>>
    /\ caption_cache[1] = <<"a", ".">>

\* the messages of gui_queue that carry the token tok, by kind
StatusCount(tok) ==
    Cardinality({i \in 1..Len(gui_queue) : gui_queue[i] = Status(tok)})
CaptionCount(tok) ==
    Cardinality({i \in 1..Len(gui_queue) : gui_queue[i] = <<tok>>})

\* the worker has returned and the last thing it published is the "stopped"
\* status
StoppedIsLast ==
    /\ gui_queue # <<>>
    /\ gui_queue[Len(gui_queue)] = Status("Stopped")
    /\ StatusCount("Stopped") = 1

C12_TranslatorClosedOnEveryExit ==
    (pc = "done" /\ StatusCount("TranslatorReady") = 1)
    => /\ translator = "closed"
       /\ obs.closes = 1

\* C13: when the input device cannot be opened or the transcriber fails to
\* initialise, the worker returns without having dequeued a frame and the
\* failure is on the consumer channel exactly once, as a status message and
\* in no caption-kind message.
C13_InitFailureReportedAsStatus ==
    \A tok \in {"DeviceError", "TranscriberError"} :
        (StatusCount(tok) + CaptionCount(tok) > 0)
        => /\ pc = "done"
           /\ pushed = 0
           /\ StatusCount(tok) = 1
           /\ CaptionCount(tok) = 0

\* C14: when creating the translator failed, the worker goes on without a
\* translator: it ends before the frame loop only if the transcriber, the
\* detector or the device failed as well, and every transcription call
\* returns the ASR text unchanged, without calling translate.
C14_TranslatorInitFailureContinues ==
    StatusCount("TranslatorError") = 1
    => /\ translator = "none"
       /\ (obs.op = "startup"
           => \/ pc = "check"
              \/ \E tok \in {"TranscriberError", "VadError", "DeviceError"} :
                    StatusCount(tok) = 1)
       /\ \A i \in 1..Len(obs.calls) :
            /\ ~obs.calls[i].translated
            /\ ~obs.calls[i].raised
            /\ obs.calls[i].text = obs.calls[i].asr

C14_Witness ==
    /\ StatusCount("TranslatorError") = 1
    /\ obs.op = "frame"
    /\ Len(obs.calls) = 2
    /\ obs.calls[1].asr = <<"a", ".">>
    /\ obs.calls[1].text = <<"a", ".">>
    /\ caption_cache = << <<"a", ".">> >>

\* C15: every step leaves the caption cache unchanged or appends exactly one
\* entry behind the existing ones, which stay as they were; the cache changes
\* only in a step that made a finalizing call, by the text that call returned,
\* and every finalizing call that returns appends.
C15_CacheAppendOnly ==
    [][/\ Len(caption_cache') \in {Len(caption_cache), Len(caption_cache) + 1}
       /\ SubSeq(caption_cache', 1, Len(caption_cache)) = caption_cache
       /\ (caption_cache' # caption_cache
           => /\ obs'.finals = obs.finals + 1
              /\ obs'.calls # <<>>
              /\ obs'.calls[1].mode = "final"
              /\ ~obs'.calls[1].raised
              /\ caption_cache'[Len(caption_cache')] = obs'.calls[1].text)
       /\ ((obs'.finals = obs.finals + 1 /\ ~obs'.calls[1].raised)
           => Len(caption_cache') = Len(caption_cache) + 1)]_vars

C15_Witness ==
    /\ Len(caption_cache) = 2
    /\ caption_cache[1] # caption_cache[2]
    /\ obs.refreshes >= 1
    /\ obs.finals = 2

\* C16: under every interleaving of the callback and the worker, the audio
\* queue holds exactly the frames pushed and not yet dequeued, in push order;
\* a push is possible whatever the queue holds; every dequeue takes the head
\* of the queue and only the head, and while the loop runs the frame taken
\* becomes the last block of the accumulator.
C16_QueueFifo ==
    /\ [](\A i \in 1..Len(q) : q[i].data = Consumed + i)
    /\ []((~terminated /\ stream = "open" /\ pushed < MaxFrames)
          => ENABLED InputCallback)
    /\ [][pushed' # pushed
          => /\ pushed' = pushed + 1
             /\ Len(q') = Len(q) + 1
             /\ SubSeq(q', 1, Len(q)) = q]_vars
    /\ [][Len(q') < Len(q)
          => /\ q' = Tail(q)
             /\ speech' # <<>>
             /\ speech'[Len(speech')] \in {Head(q).data, 0}
             /\ (pc = "get" => obs'.op = "frame")]_vars

C16_Witness ==
    /\ obs.op = "frame"
    /\ Len(q) >= 2
    /\ Consumed >= 2
    /\ speech[Len(speech)] = Consumed

\* samples held by the audio queue and the accumulator together
MemoryHeld == Len(q) * CHUNK_SIZE + Len(speech) * CHUNK_SIZE

\* the longest accumulator the max-duration cutoff allows: the only limit on
\* a buffer that the program enforces
MemoryBound == MAX_SPEECH_SECS * SAMPLING_RATE + CHUNK_SIZE

\* C17: in every reachable state the audio queue and the speech accumulator
\* together hold no more samples than a constant that does not depend on how
\* many frames the stream has delivered.
C17_MemoryBounded == MemoryHeld <= MemoryBound

\* C18: after stop_event is set the worker takes at most one more frame
\* through the loop's blocking pop (the wait that was in progress); the loop
\* test that sees the flag set leaves the loop, the loop is not entered
\* again, and the only dequeues after that are those of the shutdown drain.
C18_StopObservedPromptly ==
    /\ [](obs.afterStop <= 1)
    /\ [][(pc = "check" /\ stop_event /\ pc' # pc) => pc' = "finally"]_vars
    /\ [][(pc \in {"finally", "close", "done"})
          => (pc' \notin {"check", "get"})]_vars
    /\ [][(pc \in {"finally", "close", "done"} /\ Len(q') < Len(q))
          => obs'.op = "drain"]_vars

C18_Witness ==
    /\ stop_event
    /\ obs.afterStop = 1
    /\ pc = "finally"
    /\ q # <<>>

\* samples of the buffers given to the transcription calls cs
RECURSIVE SamplesOf(_)
SamplesOf(cs) ==
    IF cs = <<>> THEN 0
    ELSE Len(Head(cs).audio) * CHUNK_SIZE + SamplesOf(Tail(cs))

\* a step of the worker thread
WorkerStep == pushed' = pushed /\ (pc' # pc \/ q' # q)

\* the Transcriber was constructed
Constructed == StatusCount("TranscriberReady") = 1

\* C19: every Transcriber call adds one to number_inferences, the length of
\* its buffer to the speech counter and the time it took to inference_secs,
\* the warm-up call on one second of zeros included: the count is 1 after
\* construction and 1 + finalize calls + refresh calls from then on, and no
\* counter ever decreases.
C19_CountersPerCall ==
    /\ [](stats.number_inferences =
            IF Constructed THEN 1 + obs.finals + obs.refreshes ELSE 0)
    /\ []((obs.op = "startup" /\ Constructed)
          => /\ stats.number_inferences = 1
             /\ stats.speech_samples = SAMPLING_RATE
             /\ stats.inference_secs = 0)
    /\ [][(WorkerStep /\ pc # "start")
          => /\ stats'.number_inferences =
                    stats.number_inferences + Len(obs'.calls)
             /\ stats'.speech_samples =
                    stats.speech_samples + SamplesOf(obs'.calls)
             /\ stats'.inference_secs = stats.inference_secs + obs'.elapsed]_vars
    /\ [][/\ stats'.number_inferences >= stats.number_inferences
          /\ stats'.speech_samples >= stats.speech_samples
          /\ stats'.inference_secs >= stats.inference_secs]_vars

C19_Witness ==
    /\ obs.op = "frame"
    /\ Len(obs.calls) = 2
    /\ stats.number_inferences = 3
    /\ stats.inference_secs = 1
    /\ stats.speech_samples = SAMPLING_RATE + SamplesOf(obs.calls)

\* the last caption-kind message of ms, or shown when ms holds only statuses
LastCaptionOf(ms, shown) ==
    LET caps == {i \in 1..Len(ms) : ms[i][1] # "STATUS:"}
    IN IF caps = {} THEN shown
       ELSE ms[CHOOSE i \in caps : \A j \in caps : j <= i]

\* C20: a run of update_gui leaves the displayed caption as it was when the
\* channel held only status messages, and otherwise replaces it with exactly
\* the last caption-kind message taken, not with a concatenation; once the
\* channel is drained the displayed caption is the last caption-kind message
\* that was published.
C20_CaptionReplaces ==
    /\ []((gui_queue = <<>> /\ obs.captions = 1) => last_text = obs.lastCaption)
    /\ [][(gui_queue # <<>> /\ gui_queue' = <<>>)
          => last_text' = LastCaptionOf(gui_queue, last_text)]_vars

C20_Witness ==
    /\ gui_queue = <<>>
    /\ obs.op = "publish"
    /\ obs.captions = 1
    /\ last_text = <<"a", ".", "\n", "a", ".">>
    /\ last_text = obs.lastCaption

\* a step of the loop on a dequeued frame
FrameStep == pc = "get" /\ Len(q') < Len(q)

\* C21: a refresh pass transcribes the accumulator as it stands, publishes
\* the cache joined with the partial text as the step's last message and
\* resets the refresh timer; the accumulator is left as the call got it, and
\* in a step that only refreshes the cache is unchanged, the segmenter stays
\* RECORDING, the accumulator is the old one with the frame appended and
\* nothing else is published.
C21_RefreshLeavesState ==
    [][(FrameStep /\ obs'.last.refreshes = 1)
       => LET c == obs'.calls[Len(obs'.calls)]
          IN /\ c.mode = "refresh"
             /\ c.audio = speech'
             /\ Len(speech') = Len(speech) + 1
             /\ gui_queue'[Len(gui_queue')] =
                    SentenceBreaks(JoinSpace(caption_cache' \o <<c.text>>))
             /\ sinceStart' = 0
             /\ (obs'.last.finals = 0
                 => /\ caption_cache' = caption_cache
                    /\ recording /\ recording'
                    /\ speech' = speech \o <<Head(q).data>>
                    /\ Len(gui_queue') = Len(gui_queue) + 1)]_vars

C21_Witness ==
    /\ obs.op = "frame"
    /\ obs.last.refreshes = 1
    /\ obs.last.finals = 0
    /\ recording
    /\ sinceStart = 0
    /\ speech = <<1, 2>>
    /\ obs.calls[1].audio = <<1, 2>>
    /\ obs.calls[1].text = <<"a", ".">>
    /\ gui_queue[Len(gui_queue)] = <<"a", ".">>

\* C22: the step the worker takes when the blocking pop finds no frame
\* changes nothing but its position: it goes back to the test of the
\* cancellation flag; the recording flag, the accumulator, the cache, the
\* refresh timer, the detector, the counters of the transcriber and both
\* queues are as before, so nothing was published or transcribed.
C22_TimeoutChangesNothing ==
    [][(pc = "get" /\ q = <<>> /\ pc' # pc)
       => /\ pc' = "check"
          /\ obs'.op = "timeout"
          /\ obs'.calls = <<>>
          /\ UNCHANGED <<recording, speech, caption_cache, sinceStart, vad,
                         gui_queue, stats, q, translator, stream>>]_vars

C22_Witness ==
    /\ obs.op = "timeout"
    /\ pc = "check"
    /\ recording
    /\ speech = <<1, 2>>
    /\ sinceStart >= 1
    /\ vad.triggered

\* C23: every invocation of the callback puts exactly one entry, holding the
\* delivered block, at the tail of the queue, with or without a status flag;
\* a frame that carries a status flag is taken and appended to the
\* accumulator like any other, the worker goes on to the next iteration, the
\* segmenter moves as the frame's VAD event says, and a flagged frame without
\* an event while IDLE publishes nothing and changes neither the cache nor
\* the counters.
C23_StatusFlagIgnored ==
    /\ [][pushed' # pushed
          => /\ pushed' = pushed + 1
             /\ Len(q') = Len(q) + 1
             /\ SubSeq(q', 1, Len(q)) = q
             /\ q'[Len(q')].data = pushed']_vars
    /\ [][(FrameStep /\ Head(q).status)
          => /\ q' = Tail(q)
             /\ pc' = "check"
             /\ speech' # <<>>
             /\ speech'[Len(speech')] \in {Head(q).data, 0}
             /\ StatusCount("LoopError")' = 0
             /\ recording' = /\ (recording \/ "start" \in obs'.last.ev)
                             /\ obs'.last.finals = 0
             /\ ((~recording /\ obs'.last.ev = {})
                 => UNCHANGED <<recording, caption_cache, gui_queue, stats>>)]_vars

C23_Witness ==
    /\ obs.op = "frame"
    /\ obs.last.status
    /\ ~obs.prev.status
    /\ obs.last.ev = {"end"}
    /\ obs.last.finals = 1
    /\ \E i \in 1..Len(q) : q[i].status
    /\ \E i \in 1..Len(q) : ~q[i].status

\* C24: in every transcription call, translate is called only when a
\* translator exists and the ASR text is not empty after trimming; when the
\* text is empty after trimming, or there is no translator, the call returns
\* the ASR text itself, untrimmed, and does not raise.
C24_TranslateSkipsBlank ==
    obs.op \in {"frame", "shutdown"}
    => \A i \in 1..Len(obs.calls) :
         LET c == obs.calls[i]
         IN /\ (c.translated => Strip(c.asr) # <<>> /\ translator = "live")
            /\ ((Strip(c.asr) = <<>> \/ translator = "none")
                => /\ ~c.translated
                   /\ ~c.raised
                   /\ c.text = c.asr)

C24_Witness ==
    /\ obs.op = "frame"
    /\ translator = "live"
    /\ Len(obs.calls) = 2
    /\ obs.calls[1].mode = "final"
    /\ obs.calls[1].asr = <<" ">>
    /\ ~obs.calls[1].translated
    /\ obs.calls[1].text = <<" ">>
    /\ obs.calls[2].translated
    /\ obs.calls[2].text = <<"A", ".">>

\* C25: when the concatenation of a drained frame or the final finalize call
\* raised during shutdown, the worker goes on to the teardown instead of
\* leaving the function, and once the teardown has run without a failure of
\* its own the stream is closed, the statistics are printed and "stopped" is
\* the last status published, exactly once.
C25_FinalPassFailureCaught ==
    obs.drainFailed
    => /\ pc \in {"close", "done"}
       /\ StatusCount("LoopError") <= 1
       /\ ((pc = "done" /\ stream # "broken")
           => /\ stream = "closed"
              /\ translator # "live"
              /\ obs.statsPrinted
              /\ StoppedIsLast)

C25_Witness ==
    /\ obs.drainFailed
    /\ obs.op = "teardown"
    /\ pc = "done"
    /\ stream = "closed"
    /\ obs.statsPrinted
    /\ StoppedIsLast
    /\ recording
    /\ speech # <<>>

\* the accumulator's blocks and the frame behind them, cut to the last
\* LOOKBACK_CHUNKS blocks
OnsetWindow(sp, block) ==
    LET all == sp \o <<block>>
        n == Len(all)
    IN [i \in 1..(IF n < LOOKBACK_CHUNKS THEN n ELSE LOOKBACK_CHUNKS)
          |-> all[i + (IF n < LOOKBACK_CHUNKS THEN 0 ELSE n - LOOKBACK_CHUNKS)]]

\* C26: an iteration in IDLE whose VAD event holds start and not end sets
\* recording, restarts the utterance timer, publishes the "speech detected"
\* status and nothing else, makes no transcription call, leaves the cache and
\* the counters alone, and leaves in the accumulator the frame preceded by the
\* blocks of the lookback window that came before it.
C26_IdleStartBeginsRecording ==
    [][(FrameStep /\ ~recording /\ obs'.last.ev = {"start"})
       => /\ recording'
          /\ sinceStart' = 0
          /\ gui_queue' = Append(gui_queue, Status("SpeechDetected"))
          /\ obs'.calls = <<>>
          /\ UNCHANGED <<caption_cache, stats>>
          /\ speech' = OnsetWindow(speech, Head(q).data)
          /\ speech'[Len(speech')] = Head(q).data
          /\ pc' = "check"]_vars

C26_Witness ==
    /\ obs.op = "frame"
    /\ obs.last.ev = {"start"}
    /\ ~obs.last.wasRec
    /\ recording
    /\ sinceStart = 0
    /\ speech = <<2, 3>>
    /\ gui_queue[Len(gui_queue)] = Status("SpeechDetected")
    /\ obs.calls = <<>>

\* C27: an iteration in IDLE with an end-only event or with no event, and an
\* iteration in RECORDING with a start-only event, leave the recording state
\* as it was, make no transcription call, leave the cache, the counters and
\* the utterance timer alone and publish nothing; the frame is appended to
\* the accumulator, which is cut to the lookback window when IDLE.
C27_OtherCombinationsOnlyAccumulate ==
    [][(FrameStep /\ \/ (~recording /\ obs'.last.ev \in {{"end"}, {}})
                     \/ (recording /\ obs'.last.ev = {"start"}))
       => /\ recording' = recording
          /\ obs'.calls = <<>>
          /\ UNCHANGED <<caption_cache, gui_queue, stats, sinceStart>>
          /\ speech' = IF recording THEN speech \o <<Head(q).data>>
                       ELSE OnsetWindow(speech, Head(q).data)
          /\ pc' = "check"]_vars

C27_Witness ==
    /\ obs.op = "frame"
    /\ obs.last.ev = {"end"}
    /\ ~obs.last.wasRec
    /\ ~recording
    /\ obs.calls = <<>>
    /\ speech = <<2, 3>>
    /\ obs.prev.ev = {}
    /\ ~obs.prev.wasRec

C27_WitnessRecordingStart ==
    /\ obs.op = "frame"
    /\ obs.last.ev = {"start"}
    /\ obs.last.wasRec
    /\ recording
    /\ obs.calls = <<>>
    /\ Len(speech) >= 3

\* C28: in an iteration in RECORDING without a VAD event, an accumulator over
\* the maximum is always finalized, whether or not a refresh is due; when the
\* same iteration also refreshes, the finalizing call comes first and is
\* given the audio as accumulated, the refresh call comes second and sees
\* what the finalization left (the zeroed buffer, the cache with the final
\* text), and the messages are the final caption, the max-duration status
\* and the refresh caption, in this order.
C28_MaxDurationBeforeRefresh ==
    [][(FrameStep /\ recording /\ obs'.last.ev = {})
       => /\ (TooLong(speech \o <<Head(q).data>>) => obs'.last.finals = 1)
          /\ ((obs'.last.finals = 1 /\ obs'.last.refreshes = 1)
              => LET c == obs'.calls
                 IN /\ Len(c) = 2
                    /\ c[1].mode = "final"
                    /\ c[1].audio = speech \o <<Head(q).data>>
                    /\ c[2].mode = "refresh"
                    /\ c[2].audio = Zeroed(c[1].audio)
                    /\ ~recording'
                    /\ caption_cache' = Append(caption_cache, c[1].text)
                    /\ gui_queue' = gui_queue
                          \o << obs'.lastFinal,
                                Status("ProcessedMaxDuration"),
                                CaptionText(c[2].text, caption_cache') >>)]_vars

C28_Witness ==
    /\ obs.op = "frame"
    /\ obs.last.ev = {}
    /\ obs.last.wasRec
    /\ obs.last.finals = 1
    /\ obs.last.refreshes = 1
    /\ Len(obs.calls) = 2
    /\ obs.calls[1].audio = <<1, 2, 3>>
    /\ obs.calls[2].audio = <<0, 0, 0>>
    /\ ~recording
    /\ sinceStart = 0

\* the detector's transient fields are as soft_reset leaves them
TransientCleared(v) ==
    ~v.triggered /\ v.temp_end = 0 /\ v.current_sample = 0

\* C29: an iteration in RECORDING without a VAD event whose accumulator is
\* over the maximum always ends in IDLE; when its finalize call returned the
\* detector is soft-reset once in that iteration (its transient fields are
\* cleared), and when the finalize call raised the reset is not reached.
\* Every other step performs no reset: an iteration that finalizes on an
\* end event or only refreshes leaves the detector as its own call left it,
\* and the timeout, drain, shutdown and teardown steps do not touch it.
C29_SoftResetOnlyOnCutoff ==
    /\ [][FrameStep
          => LET cut == /\ recording
                        /\ obs'.last.ev = {}
                        /\ ~obs'.aborted \/ obs'.calls # <<>>
                        /\ TooLong(speech \o <<Head(q).data>>)
                 returned == obs'.calls # <<>> /\ ~obs'.calls[1].raised
             IN /\ (cut => ~recording' /\ obs'.last.finals = 1
                           /\ obs'.calls[1].mode = "final")
                /\ ((cut /\ returned)
                    => /\ obs'.resets = obs.resets + 1
                       /\ TransientCleared(vad')
                       /\ vad'.model = vad.model + 1)
                /\ (~(cut /\ returned)
                    => /\ obs'.resets = obs.resets
                       /\ (vad' # vad => vad'.current_sample = 1))]_vars
    /\ [][~FrameStep => (vad' = vad /\ obs'.resets = obs.resets)]_vars

C29_Witness ==
    /\ obs.op = "frame"
    /\ obs.last.ev = {}
    /\ obs.last.wasRec
    /\ obs.last.resets = 1
    /\ obs.prev.ev = {"start"}
    /\ obs.finals = 2
    /\ obs.resets = 1
    /\ ~recording
    /\ TransientCleared(vad)
    /\ vad.model = 4

\* C30: applied to any detector state the worker reaches, soft_reset gives a
\* state with triggered false, temp_end 0 and current_sample 0 and with the
\* model, the threshold, the silence duration and the set of fields as they
\* were, and applying it to its own result changes nothing; the iteration
\* that performs the reset leaves the detector with the model state its own
\* call produced and with the configuration it was created with.
C30_SoftResetTransientOnly ==
    /\ [](LET r == soft_reset(vad)
          IN /\ DOMAIN r = DOMAIN vad
             /\ r.triggered = FALSE
             /\ r.temp_end = 0
             /\ r.current_sample = 0
             /\ \A f \in DOMAIN vad \ {"triggered", "temp_end", "current_sample"} :
                    r[f] = vad[f]
             /\ soft_reset(r) = r)
    /\ [][(FrameStep /\ obs'.last.resets = 1)
          => /\ vad'.model = vad.model + 1
             /\ vad'.threshold = vad.threshold
             /\ vad'.min_silence_duration_ms = vad.min_silence_duration_ms
             /\ soft_reset(vad') = vad']_vars

C30_Witness ==
    /\ obs.op = "frame"
    /\ obs.last.resets = 1
    /\ obs.finals = 1
    /\ vad = [triggered |-> FALSE, temp_end |-> 0, current_sample |-> 0,
              threshold |-> "0.5", min_silence_duration_ms |-> "2000",
              model |-> 3]

\* the step of the finally block that finalizes the trailing utterance
FinalPassStep == pc = "finally" /\ pc' = "close" /\ obs'.op = "shutdown"

\* C31: a finalizing call is given the accumulator as it stands, not yet
\* zeroed; when it returns, the caption published is the cache as it was
\* before the call joined with the returned text, the cache then holds that
\* text as its last entry, and the accumulator is left zeroed at its length;
\* when the call raises, nothing behind it is done: no caption, the cache
\* and the accumulator's samples as they were.
C31_FinalizeOrder ==
    [][((FrameStep \/ FinalPassStep) /\ obs'.calls # <<>>
            /\ obs'.calls[1].mode = "final")
       => LET c == obs'.calls[1]
          IN /\ c.audio # <<>>
             /\ c.audio = IF FinalPassStep THEN speech
                          ELSE Accumulate(speech, recording, Head(q).data)
             /\ IF c.raised
                THEN /\ caption_cache' = caption_cache
                     /\ speech' = c.audio
                     /\ \A i \in (Len(gui_queue) + 1)..Len(gui_queue') :
                            IsStatus(gui_queue'[i]) \/ gui_queue'[i] = <<"LoopError">>
                ELSE /\ obs'.lastFinal = CaptionText(c.text, caption_cache)
                     /\ \E i \in (Len(gui_queue) + 1)..Len(gui_queue') :
                            /\ gui_queue'[i] = obs'.lastFinal
                            /\ \A j \in (Len(gui_queue) + 1)..(i - 1) :
                                   IsStatus(gui_queue'[j])
                     /\ caption_cache' = Append(caption_cache, c.text)
                     /\ speech' = Zeroed(c.audio)
                     /\ \A i \in 1..Len(speech') : speech'[i] = 0]_vars

C31_Witness ==
    /\ obs.op = "frame"
    /\ obs.last.ev = {"end"}
    /\ Len(obs.calls) = 1
    /\ obs.calls[1].mode = "final"
    /\ obs.calls[1].audio = <<1, 2>>
    /\ obs.calls[1].text = <<"A", ".">>
    /\ ~obs.calls[1].raised
    /\ speech = <<0, 0>>
    /\ caption_cache = << <<"A", ".">> >>
    /\ obs.lastFinal = <<"A", ".">>

\* the texts a transcription call can return
ReturnedTexts == Texts \cup {Backend(t) : t \in Texts}

\* m is transcript text: the first k cache entries joined, optionally
\* followed by one more returned text
IsTranscript(m) ==
    \E k \in 0..Len(caption_cache) :
        \/ m = SentenceBreaks(JoinSpace(SubSeq(caption_cache, 1, k)))
        \/ \E t \in ReturnedTexts :
              m = CaptionText(t, SubSeq(caption_cache, 1, k))

\* C32 as stated: every message on gui_queue that is not a status is
\* transcript text (the cache joined, optionally followed by one partial
\* transcription); no readiness notice and no error text is put as a caption.
C32_CaptionsAreTranscript ==
    \A i \in 1..Len(gui_queue) :
        IsStatus(gui_queue[i]) \/ IsTranscript(gui_queue[i])

\* the worker thread under a fair scheduler: whenever one of its steps stays
\* possible it is eventually taken (every transcription call returns: the
\* steps of Next have no raising call)
WorkerFairness ==
    /\ WF_vars(Startup)
    /\ WF_vars(LoopCheck)
    /\ WF_vars(GetTimeout)
    /\ WF_vars(ProcessFrame)
    /\ WF_vars(Drain)
    /\ WF_vars(ShutdownFinalize)
    /\ WF_vars(Teardown)

SpecLive == Init /\ [][Next]_vars /\ WorkerFairness

\* the worker is in the frame loop or in the finally block behind it
InSession == pc \in {"check", "get", "finally", "close"}

\* C33 as stated: once stop_event is set during a session, the worker
\* eventually publishes the final "stopped" status and returns.
C33_StopLeadsToStopped ==
    (stop_event /\ InSession) ~> (pc = "done" /\ StoppedIsLast)

\* C34 as stated: a refresh pass is made only while the segmenter is
\* RECORDING: an iteration that made a refresh call made no finalizing call
\* before it and ends in RECORDING, and the buffer it transcribed was not the
\* zeroed one.
C34_RefreshOnlyWhileRecording ==
    (obs.op = "frame" /\ obs.last.refreshes = 1)
    => /\ obs.last.finals = 0
       /\ recording
       /\ obs.calls[Len(obs.calls)].audio # Zeroed(obs.calls[Len(obs.calls)].audio)

\* the worker has returned from a session that reached the frame loop
ExitedSession == pc = "done" /\ stream # "unopened"

StartsWith(m, p) == Len(p) <= Len(m) /\ SubSeq(m, 1, Len(p)) = p

C37_StartAndEndInOneEvent ==
    [][(FrameStep /\ obs'.last.ev = {"start", "end"})
       => LET c == obs'.calls
          IN /\ Len(c) = 1
             /\ c[1].mode = "final"
             /\ c[1].audio = Accumulate(speech, recording, Head(q).data)
             /\ obs'.finals = obs.finals + 1
             /\ caption_cache' = Append(caption_cache, c[1].text)
             /\ ~recording'
             /\ speech' = Zeroed(c[1].audio)
             /\ IF recording
                THEN /\ obs'.starts = obs.starts
                     /\ sinceStart' = sinceStart
                     /\ gui_queue' = gui_queue
                           \o << CaptionText(c[1].text, caption_cache),
                                 Status("Processed") >>
                ELSE /\ obs'.starts = obs.starts + 1
                     /\ gui_queue' = gui_queue
                           \o << Status("SpeechDetected"),
                                 CaptionText(c[1].text, caption_cache),
                                 Status("Processed") >>]_vars

C37_Witness ==
    /\ obs.op = "frame"
    /\ obs.last.ev = {"start", "end"}
    /\ ~obs.last.wasRec
    /\ obs.prev.ev = {"start", "end"}
    /\ obs.prev.wasRec
    /\ ~recording
    /\ obs.starts = 2
    /\ obs.finals = 2
    /\ Len(caption_cache) = 2

\* C38: when the loop was left with the segmenter IDLE, the finally block
\* goes to the teardown in one step that makes no transcription call and
\* changes neither the cache, the accumulator, the counters, the published
\* messages nor the audio queue; nothing is drained, and the teardown leaves
\* the queued frames where they are and publishes the "stopped" status only.
C38_IdleCancelSkipsFinalPass ==
    /\ [][(pc = "finally" /\ ~recording /\ pc' # pc)
          => /\ pc' = "close"
             /\ obs'.op = "shutdown"
             /\ obs'.calls = <<>>
             /\ UNCHANGED <<caption_cache, speech, stats, gui_queue, recording>>
             /\ Len(q') >= Len(q)
             /\ SubSeq(q', 1, Len(q)) = q]_vars
    /\ [][(pc = "close" /\ ~recording /\ pc' # pc)
          => /\ UNCHANGED <<caption_cache, speech, stats, q>>
             /\ gui_queue' = Append(gui_queue, Status("Stopped"))]_vars
    /\ []((pc \in {"finally", "close", "done"} /\ ~recording) => obs.drained = 0)

C38_Witness ==
    /\ obs.op = "teardown"
    /\ pc = "done"
    /\ ~recording
    /\ Len(q) = 2
    /\ Consumed = 2
    /\ Len(caption_cache) = 1
    /\ obs.finals = 1
    /\ obs.drained = 0
    /\ StoppedIsLast

C40_NoTranslateAfterClose ==
    /\ [][((FrameStep \/ FinalPassStep) /\ obs'.calls # <<>>)
          => /\ translator # "closed"
             /\ translator' = translator
             /\ \A i \in 1..Len(obs'.calls) :
                    obs'.calls[i].translated => translator = "live"]_vars
    /\ [][translator = "closed"
          => UNCHANGED <<translator, stats, caption_cache, gui_queue, pc>>]_vars
    /\ [](translator = "closed" => (pc = "done" /\ obs.calls = <<>>))
    /\ [](obs.closes <= 1 /\ (obs.closes = 1 <=> translator = "closed"))

C40_Witness ==
    /\ obs.op = "teardown"
    /\ translator = "closed"
    /\ obs.closes = 1
    /\ pc = "done"
    /\ recording
    /\ obs.drained = 1
    /\ obs.finals = 1
    /\ obs.lastFinal = <<"A", ".">>
    /\ caption_cache = << <<"A", ".">> >>

====
